---------------------------- MODULE Spec2Model ----------------------------
(***************************************************************************)
(* PhraseFinder (phrase_finder.ipynb): the vectorization-and-ranking core. *)
(*                                                                         *)
(* Strings are sequences of one-character strings, so that lower() and     *)
(* split() are computed.  A numpy array is a record [n, d] that stands for *)
(* the array n[i]/d: the arrays of the program are sums of table vectors   *)
(* divided by one token count, and 0/0 is numpy's nan.  A similarity score *)
(* is a record [n, d] as well: the cosine dot/(|a||b|) is kept as its      *)
(* signed square sgn(dot)*dot^2 / (|a|^2 |b|^2), which orders scores as    *)
(* the cosines themselves are ordered; d = 0 is nan.  Arithmetic is exact  *)
(* (floating point rounding is not modelled).                              *)
(***************************************************************************)
EXTENDS Integers, Sequences, FiniteSets

\* Dimension of the embedding vectors in the model (300 in the program).
D == 2
\* Longest corpus of the main specification.
MaxCorpus == 3
\* Largest result count asked of a query.
MaxNumber == 4
\* Longest text given to phrase_vector in SpecVec.
MaxLen == 3
\* Longest corpus of SpecTie.
MaxTieCorpus == 7

VARIABLES interesting_phrases, interesting_phrases_vectors,
          phrase, number, vector_to_compare, sorted_vectors, output, pc

vars == <<interesting_phrases, interesting_phrases_vectors,
          phrase, number, vector_to_compare, sorted_vectors, output, pc>>

----------------------------------------------------------------------------
(* Text *)

Chars == {"h", "H", "s", "c", "x", "t", " "}

RECURSIVE TextsOfLen(_)
TextsOfLen(k) ==
  IF k = 0 THEN {<<>>}
  ELSE {Append(t, c) : t \in TextsOfLen(k - 1), c \in Chars}

Texts == UNION {TextsOfLen(k) : k \in 0..MaxLen}

\* str.lower()
lower(s) == [i \in 1..Len(s) |-> IF s[i] = "H" THEN "h" ELSE s[i]]

\* str.split(): the maximal runs of non-whitespace characters, in order.
RECURSIVE SplitFrom(_, _, _)
SplitFrom(s, i, word) ==
  IF i > Len(s)
    THEN IF word = <<>> THEN <<>> ELSE <<word>>
    ELSE IF s[i] = " "
      THEN IF word = <<>> THEN SplitFrom(s, i + 1, <<>>)
                          ELSE <<word>> \o SplitFrom(s, i + 1, <<>>)
      ELSE SplitFrom(s, i + 1, Append(word, s[i]))

split(s) == SplitFrom(s, 1, <<>>)

----------------------------------------------------------------------------
(* The embedding table: a small stand-in for the word2vec model. *)

Vocab == {<<"h">>, <<"s">>, <<"c">>, <<"t">>}

Coord(word, i) ==
  IF word = <<"h">> THEN (IF i = 1 THEN 2 ELSE IF i = 2 THEN 1 ELSE 0)
  ELSE IF word = <<"s">> THEN (IF i = 1 THEN 1 ELSE IF i = 2 THEN 2 ELSE 0)
  ELSE IF word = <<"c">> THEN (IF i = 1 THEN 1 ELSE IF i = 2 THEN 0 - 3 ELSE 0)
  ELSE (IF i = 1 THEN 1 ELSE IF i = 2 THEN 1 ELSE 0)

\* googledata_model[word]; KeyError for a word that is not in the table.
googledata_model(word) ==
  IF word \in Vocab
    THEN [raised |-> FALSE, value |-> [n |-> [i \in 1..D |-> Coord(word, i)], d |-> 1]]
    ELSE [raised |-> TRUE, value |-> [n |-> <<>>, d |-> 0]]

\* gensim's STOPWORDS, as far as the model's words go.
stopwords == {<<"t">>}

----------------------------------------------------------------------------
(* numpy *)

numpy_zeros == [n |-> [i \in 1..D |-> 0], d |-> 1]

numpy_add(a, b) ==
  [n |-> [i \in 1..D |-> a.n[i] * b.d + b.n[i] * a.d], d |-> a.d * b.d]

\* array * 1 / k, elementwise; 0/0 is nan.
numpy_div(a, k) == [n |-> a.n, d |-> a.d * k]

RECURSIVE SumTo(_, _, _)
SumTo(a, b, k) == IF k = 0 THEN 0 ELSE SumTo(a, b, k - 1) + a[k] * b[k]

numpy_inner(a, b) == SumTo(a, b, Len(a))

IsNaNVector(v) == v.d = 0

NaN == [n |-> 0, d |-> 0]

IsNaN(x) == x.d = 0

\* Python's float comparisons: every comparison with nan is False.
Less(x, y) == ~IsNaN(x) /\ ~IsNaN(y) /\ x.n * y.d < y.n * x.d

GreaterEq(x, y) == ~IsNaN(x) /\ ~IsNaN(y) /\ x.n * y.d >= y.n * x.d

Neg(x) == [n |-> 0 - x.n, d |-> x.d]

----------------------------------------------------------------------------
(* similarity and phrase_vector *)

similarity(vector1, vector2) ==
  LET dot == numpy_inner(vector1.n, vector2.n)
      sq1 == numpy_inner(vector1.n, vector1.n)
      sq2 == numpy_inner(vector2.n, vector2.n)
  IN  IF IsNaNVector(vector1) \/ IsNaNVector(vector2) THEN NaN
      ELSE IF sq1 * sq2 = 0 THEN NaN
      ELSE [n |-> (IF dot < 0 THEN 0 - dot * dot ELSE dot * dot), d |-> sq1 * sq2]

\* The list comprehension of phrase_vector: "word not in stopwords or True".
RECURSIVE keep_words(_)
keep_words(words) ==
  IF words = <<>> THEN <<>>
  ELSE IF (Head(words) \notin stopwords) \/ TRUE
    THEN <<Head(words)>> \o keep_words(Tail(words))
    ELSE keep_words(Tail(words))

\* Mutant: the stopword test without its "or True".
RECURSIVE drop_stopwords(_)
drop_stopwords(words) ==
  IF words = <<>> THEN <<>>
  ELSE IF Head(words) \notin stopwords
    THEN <<Head(words)>> \o drop_stopwords(Tail(words))
    ELSE drop_stopwords(Tail(words))

phrase_words_filtered(text) == drop_stopwords(split(lower(text)))

phrase_words(text) == keep_words(split(lower(text)))

\* try: googledata_model[word] except: zeros
word_vector(word) ==
  IF googledata_model(word).raised THEN numpy_zeros
  ELSE googledata_model(word).value

RECURSIVE sum_words(_, _)
sum_words(words, acc) ==
  IF words = <<>> THEN acc
  ELSE sum_words(Tail(words), numpy_add(word_vector(Head(words)), acc))

phrase_vector(text) ==
  numpy_div(sum_words(phrase_words(text), numpy_zeros), Len(phrase_words(text)))


----------------------------------------------------------------------------
(* sorted(list, key = ...): CPython's list sort for fewer than 64 elements  *)
(* (count_run, reverse_slice, binarysort), comparing the keys with "<".     *)

\* key = lambda item : -item[-1]
key(item) == Neg(item[2])

ISLT(x, y) == Less(key(x), key(y))

\* count_run: the length of the run that starts the list.
RECURSIVE RunEnd(_, _, _)
RunEnd(s, i, descending) ==
  IF i > Len(s) THEN i - 1
  ELSE IF ISLT(s[i], s[i - 1]) = descending THEN RunEnd(s, i + 1, descending)
  ELSE i - 1

count_run(s) ==
  LET descending == ISLT(s[2], s[1])
  IN  [n |-> RunEnd(s, 3, descending), descending |-> descending]

reverse_slice(s, n) ==
  [i \in 1..Len(s) |-> IF i <= n THEN s[n + 1 - i] ELSE s[i]]

\* The binary search of binarysort: where the pivot goes in s[1..start-1].
RECURSIVE BinarySearch(_, _, _, _)
BinarySearch(s, pivot, l, r) ==
  IF l >= r THEN l
  ELSE LET p == l + ((r - l) \div 2)
       IN  IF ISLT(pivot, s[p]) THEN BinarySearch(s, pivot, l, p)
           ELSE BinarySearch(s, pivot, p + 1, r)

RECURSIVE binarysort(_, _)
binarysort(s, start) ==
  IF start > Len(s) THEN s
  ELSE LET pivot == s[start]
           l == BinarySearch(s, pivot, 1, start)
           moved == [i \in 1..Len(s) |->
                       IF i < l THEN s[i]
                       ELSE IF i = l THEN pivot
                       ELSE IF i <= start THEN s[i - 1]
                       ELSE s[i]]
       IN  binarysort(moved, start + 1)

sorted(s) ==
  IF Len(s) < 2 THEN s
  ELSE LET run == count_run(s)
           first == IF run.descending THEN reverse_slice(s, run.n) ELSE s
       IN  binarysort(first, run.n + 1)

----------------------------------------------------------------------------
(* get_comparisons *)

\* Python's None; no vector the program builds is None.
None == [n |-> <<>>, d |-> 0]

\* enumerate(interesting_phrases_vectors), then "if item[-1] is not None".
numbered_vectors(vectors) ==
  SelectSeq([i \in 1..Len(vectors) |-> <<i, vectors[i]>>],
            LAMBDA item : item[2] # None)

\* The loop that replaces each vector by its similarity to the query.
scored_vectors(vectors, query_vector) ==
  LET numbered == numbered_vectors(vectors)
  IN  [k \in 1..Len(numbered) |->
         <<numbered[k][1], similarity(numbered[k][2], query_vector)>>]

\* Mutant: the result taken as the slice sorted_vectors[:number].
output_loop_slice(phrases, sorted_list, count) ==
  LET m == IF count < 0 THEN Len(sorted_list) + count ELSE count
      len == IF m < 0 THEN 0 ELSE IF m > Len(sorted_list) THEN Len(sorted_list) ELSE m
  IN  [raised |-> "", value |-> [k \in 1..len |-> phrases[sorted_list[k][1]]]]

\* for index in range(number): output.append(...sorted_vectors[index][0]...)
output_loop(phrases, sorted_list, count) ==
  IF count > Len(sorted_list)
    THEN [raised |-> "IndexError", value |-> <<>>]
    ELSE [raised |-> "",
          value |-> [k \in 1..(IF count < 0 THEN 0 ELSE count) |->
                       phrases[sorted_list[k][1]]]]

\* Mutant: the scores sorted in place, the vector list reordered with them.
get_comparisons_inplace(text, count) ==
  LET query_vector == phrase_vector(text)
      sorted_list  == sorted(scored_vectors(interesting_phrases_vectors, query_vector))
      result       == output_loop(interesting_phrases, sorted_list, count)
  IN  /\ phrase' = text
      /\ number' = count
      /\ vector_to_compare' = query_vector
      /\ sorted_vectors' = sorted_list
      /\ output' = result.value
      /\ pc' = IF result.raised = "" THEN "returned" ELSE result.raised
      /\ interesting_phrases_vectors' =
           [k \in 1..Len(sorted_list) |-> interesting_phrases_vectors[sorted_list[k][1]]]
      /\ UNCHANGED interesting_phrases

get_comparisons(text, count) ==
  LET query_vector == phrase_vector(text)
      sorted_list  == sorted(scored_vectors(interesting_phrases_vectors, query_vector))
      result       == output_loop(interesting_phrases, sorted_list, count)
  IN  /\ phrase' = text
      /\ number' = count
      /\ vector_to_compare' = query_vector
      /\ sorted_vectors' = sorted_list
      /\ output' = result.value
      /\ pc' = IF result.raised = "" THEN "returned" ELSE result.raised
      /\ UNCHANGED <<interesting_phrases, interesting_phrases_vectors>>

----------------------------------------------------------------------------
(* The notebook after cell 7: the phrase list is loaded and vectorized. *)

PhrasePool == {<<"h">>, <<"H">>, <<"s">>, <<"c", " ", "x">>, <<"x">>, <<" ">>}

QueryPool == {<<"h">>, <<"s", " ", "h">>, <<"x">>, <<>>}

RECURSIVE SeqsOfLen(_, _)
SeqsOfLen(S, k) ==
  IF k = 0 THEN {<<>>}
  ELSE {Append(q, e) : q \in SeqsOfLen(S, k - 1), e \in S}

SeqsUpTo(S, k) == UNION {SeqsOfLen(S, j) : j \in 0..k}

\* interesting_phrases_vectors = list(map(phrase_vector, interesting_phrases))
build(phrases) == [i \in 1..Len(phrases) |-> phrase_vector(phrases[i])]

Loaded(corpora) ==
  /\ interesting_phrases \in corpora
  /\ interesting_phrases_vectors = build(interesting_phrases)
  /\ phrase = <<>>
  /\ number = 0
  /\ vector_to_compare = None
  /\ sorted_vectors = <<>>
  /\ output = <<>>
  /\ pc = "idle"

Init == Loaded(SeqsUpTo(PhrasePool, MaxCorpus))

Next == \E text \in QueryPool, count \in (0 - 1)..MaxNumber : get_comparisons(text, count)

Spec == Init /\ [][Next]_vars

\* Corpora long enough for the sort to pass one element over several others.
TiePool == {<<"h">>, <<"H">>, <<"s">>, <<"x">>}

InitTie == Loaded(SeqsUpTo(TiePool, MaxTieCorpus))

\* The whole ranking is asked for.
NextTie == \E count \in {Len(interesting_phrases)} : get_comparisons(<<"h">>, count)

SpecTie == InitTie /\ [][NextTie]_vars

\* phrase_vector called on its own, on every text up to MaxLen.
InitVec ==
  /\ interesting_phrases = <<>>
  /\ interesting_phrases_vectors = <<>>
  /\ phrase \in Texts
  /\ number = 0
  /\ vector_to_compare = None
  /\ sorted_vectors = <<>>
  /\ output = <<>>
  /\ pc = "call"

phrase_vector_call ==
  /\ pc = "call"
  /\ vector_to_compare' = phrase_vector(phrase)
  /\ pc' = "returned"
  /\ UNCHANGED <<interesting_phrases, interesting_phrases_vectors,
                 phrase, number, sorted_vectors, output>>

NextVec == phrase_vector_call

SpecVec == InitVec /\ [][NextVec]_vars


----------------------------------------------------------------------------
(* Properties *)

\* The index a query ranks: the entries that pass the "is not None" filter.
Index == numbered_vectors(interesting_phrases_vectors)

IndexIds == {Index[k][1] : k \in 1..Len(Index)}

\* The similarity of corpus entry i, and of a text, to the last query.
ScoreOf(i) == similarity(interesting_phrases_vectors[i], phrase_vector(phrase))

ScoreOfText(text) == similarity(phrase_vector(text), phrase_vector(phrase))

\* The corpus entries the last query returned.
ResultIds == {sorted_vectors[k][1] : k \in 1..Len(output)}

Min(a, b) == IF a < b THEN a ELSE b

Tokens(text) == split(lower(text))

AllUnknown(text) ==
  /\ Tokens(text) # <<>>
  /\ \A k \in 1..Len(Tokens(text)) : Tokens(text)[k] \notin Vocab

\* The last query's text has a vector every non-degenerate vector can be
\* scored against (a known token, non-zero norm).
UsableQuery == ~IsNaN(similarity(vector_to_compare, vector_to_compare))

\* C1: the phrases a query with n >= 1 returns are the n highest-scoring
\* indexed phrases: no indexed phrase left out of the result scores strictly
\* higher than a phrase in the result.
C1_TopN ==
  (pc = "returned" /\ number >= 1) =>
    \A i \in IndexIds \ ResultIds, j \in ResultIds : ~Less(ScoreOf(j), ScoreOf(i))

\* C2: in every returned sequence each phrase scores at least as high as the
\* phrase after it, also when the corpus holds zero or undefined vectors
\* (stated for the queries whose own vector is usable).
C2_Descending ==
  (pc = "returned" /\ UsableQuery) =>
    \A k \in 1..(Len(output) - 1) :
      GreaterEq(ScoreOfText(output[k]), ScoreOfText(output[k + 1]))

\* C3: a query with n > 0 returns exactly min(n, index size) results, with no
\* error when n exceeds the index size or the index is empty.
C3_BoundedCount ==
  (pc # "idle" /\ number > 0) =>
    (pc = "returned" /\ Len(output) = Min(number, Len(Index)))

\* C4: a corpus phrase made only of tokens unknown to the table is never in a
\* query's result, and a query that asks for no more than the corpus holds
\* does not raise (stated for the queries whose own vector is usable).
C4_UnknownExcluded ==
  /\ (pc = "returned" /\ UsableQuery) => \A k \in 1..Len(output) : ~AllUnknown(output[k])
  /\ (pc # "idle" /\ number <= Len(interesting_phrases)) => pc = "returned"

\* C5: phrase_vector on a text with zero tokens ends in an error and returns
\* no vector.
C5_EmptyInputRejected ==
  (pc # "call" /\ Tokens(phrase) = <<>>) =>
    (pc # "returned" /\ vector_to_compare = None)

\* C6: after the build the index holds exactly the phrases with at least one
\* token, in their original order, and every vector in it has dimension D and
\* no nan component.
C6_IndexClean ==
  /\ \A i \in 1..Len(interesting_phrases) :
       (i \in IndexIds) <=> (Tokens(interesting_phrases[i]) # <<>>)
  /\ \A k \in 1..(Len(Index) - 1) : Index[k][1] < Index[k + 1][1]
  /\ \A k \in 1..Len(Index) :
       Len(Index[k][2].n) = D /\ ~IsNaNVector(Index[k][2])

\* The contribution of one whitespace-separated token to component i.
TokenCoord(token, i) == IF lower(token) \in Vocab THEN Coord(lower(token), i) ELSE 0

RECURSIVE TokenSum(_, _)
TokenSum(tokens, i) ==
  IF tokens = <<>> THEN 0
  ELSE TokenCoord(Head(tokens), i) + TokenSum(Tail(tokens), i)

\* C7: for a text of k >= 1 whitespace-separated tokens phrase_vector returns
\* the componentwise sum of the token vectors divided by k; an unknown token
\* adds zero and counts in k, and a stopword is a token like any other.
C7_MeanPooling ==
  (pc = "returned" /\ Len(split(phrase)) >= 1) =>
    LET k == Len(split(phrase))
        v == vector_to_compare
    IN  /\ Len(v.n) = D
        /\ v.d # 0
        /\ \A i \in 1..D : v.n[i] * k = TokenSum(split(phrase), i) * v.d

\* phrase_vector has returned for a text with a stopword and an unknown token.
C7_Witness ==
  /\ pc = "returned"
  /\ \E a, b \in 1..Len(Tokens(phrase)) :
       Tokens(phrase)[a] \in stopwords /\ Tokens(phrase)[b] \notin Vocab

\* C8: of two returned phrases with equal score the one earlier in the corpus
\* comes earlier in the result (stated for phrases of different text, whose
\* order shows in the returned list).
C8_TieOrder ==
  pc = "returned" =>
    \A a, b \in 1..Len(output) :
      (/\ a < b
       /\ output[a] # output[b]
       /\ GreaterEq(sorted_vectors[a][2], sorted_vectors[b][2])
       /\ GreaterEq(sorted_vectors[b][2], sorted_vectors[a][2]))
        => sorted_vectors[a][1] < sorted_vectors[b][1]

C10_IndexReadOnly ==
  [][/\ interesting_phrases' = interesting_phrases
     /\ interesting_phrases_vectors' = interesting_phrases_vectors]_vars

\* A query has raised over a corpus whose order differs from its ranking.
C10_Witness ==
  /\ pc = "IndexError"
  /\ Len(sorted_vectors) >= 2
  /\ sorted_vectors[1][1] # 1

=============================================================================
